---- MODULE Spec2Model ----
(***************************************************************************)
(* Redis-backed token bucket (src/test.py) and the /limited gate           *)
(* (src/main.py).                                                          *)
(*                                                                         *)
(* Numbers.  Python floats are modelled as exact fixed-point values:       *)
(*   - time is in whole seconds;                                           *)
(*   - a token count is an integer number of 1/TokUnit tokens ("units"),   *)
(*     so 1 token = TokUnit units and `tokens < 1` is `tok < TokUnit`;     *)
(*   - refill_rate is in units per second (TokUnit = 1 token/second);      *)
(*   - round(x, 2) yields an integer number of hundredths.                 *)
(*                                                                         *)
(* Spec      : calls run one at a time, each handler is one action.        *)
(* SpecConc  : handlers of concurrent callers interleave at every store    *)
(*             round trip.                                                 *)
(***************************************************************************)
EXTENDS Integers, Sequences, FiniteSets, TLC

\* ---------------------------------------------------------------- bounds
MaxCapacity == 2
TokUnit == 64
MaxClock == 61
MaxEarly == 2
MaxCalls == 3
MaxStarted == 3

\* ----------------------------------------------------- program constants
ExpirySeconds == 60
DefaultRefillRate == 1

\* the client identities (request.client.host) that call in
Identities == {"1.2.3.4"}
Procs == {"c1", "c2"}

\* The instants at which time.time() is sampled: the first seconds, and the
\* seconds around and after the expiry window.
Times == {t \in 0..MaxClock : t <= MaxEarly \/ t >= ExpirySeconds - 1}

Capacities == 1..MaxCapacity
\* refill rates in units per second: 1/TokUnit, 1 (the default) and 2 tokens
\* per second
RefillRates == {1, DefaultRefillRate * TokUnit, 2 * TokUnit}

\* a field hmget finds absent is <<>>, a field it finds is <<value>>
None == << >>
\* a field whose text is not a number, as hmget returns it
Unparseable == <<0, 0>>
NoTTL == -1

VARIABLES
    capacity,      \* TokenBucket.capacity, in tokens
    refill_rate,   \* TokenBucket.refill_rate, in units per second
    clock,         \* the wall clock read by time.time()
    store,         \* the Redis hashes bucket:<ip>, with their expiry
    resp,          \* Spec: the outcome of the last call
    hist,          \* Spec: per identity, the allow_request calls made so far
    pc,            \* SpecConc: where each caller is in its handler
    loc,           \* SpecConc: each caller's local variables and last result
    started        \* SpecConc: the handler calls begun so far

vars == <<capacity, refill_rate, clock, store, resp, hist, pc, loc, started>>

Min(a, b) == IF a <= b THEN a ELSE b

\* ------------------------------------------------------------ the store
\* garbled names the field ("tokens", "last") that holds unparseable text
NoKey == [exists |-> FALSE, tokens |-> 0, last |-> 0, ttl |-> NoTTL,
          garbled |-> "no"]

\* A key is there until its expiry time is reached.
Live(rec, t) == rec.exists /\ (rec.ttl = NoTTL \/ t < rec.ttl)

\* r.hmget(key, "tokens", "last") at store time t
Hmget(s, ip, t) ==
    IF Live(s[ip], t)
    THEN << IF s[ip].garbled = "tokens" THEN Unparseable ELSE <<s[ip].tokens>>,
            IF s[ip].garbled = "last" THEN Unparseable ELSE <<s[ip].last>> >>
    ELSE <<None, None>>

\* faulty variant: the write takes a token off the count that is stored
HsetDecrement(s, ip, tokens, now, t) ==
    [s EXCEPT ![ip] = [exists |-> TRUE,
                       tokens |-> IF Live(s[ip], t) THEN s[ip].tokens - TokUnit
                                  ELSE tokens,
                       last |-> now,
                       ttl |-> IF Live(s[ip], t) THEN s[ip].ttl ELSE NoTTL,
                       garbled |-> "no"]]

\* r.hset(key, mapping={"tokens": tokens, "last": now}) at store time t:
\* an existing key keeps its expiry, a new key has none.
Hset(s, ip, tokens, now, t) ==
    [s EXCEPT ![ip] = [exists |-> TRUE, tokens |-> tokens, last |-> now,
                       ttl |-> IF Live(s[ip], t) THEN s[ip].ttl ELSE NoTTL,
                       garbled |-> "no"]]

\* faulty variant: the expiry is given in milliseconds (r.pexpire(key, 60)), which is
\* over within the second
ExpireMillis(s, ip, t) ==
    IF Live(s[ip], t) THEN [s EXCEPT ![ip].ttl = t] ELSE s

\* r.expire(key, 60) at store time t
Expire(s, ip, t) ==
    IF Live(s[ip], t) THEN [s EXCEPT ![ip].ttl = t + ExpirySeconds] ELSE s

\* ------------------------------------------------- TokenBucket arithmetic
Truthy(v) == v # None

\* float(v) of a stored field
Float(v) == Head(v)

\* faulty variant: text that is no number is read as a number
ParsesLeniently(v) == TRUE

\* whether float(v) returns (it raises ValueError otherwise)
Parses(v) == Len(v) = 1

\* float() raises on one of the fields it is applied to
ParseError(data) ==
    \/ Truthy(data[1]) /\ ~Parses(data[1])
    \/ Truthy(data[2]) /\ ~Parses(data[2])

CapUnits == capacity * TokUnit

\* tokens = float(data[0]) if data[0] else self.capacity
StoredTokens(data) == IF Truthy(data[1]) THEN Float(data[1]) ELSE CapUnits

\* last = float(data[1]) if data[1] else now
StoredLast(data, now) == IF Truthy(data[2]) THEN Float(data[2]) ELSE now

\* faulty variant: no time is taken to have elapsed since the last refill
DeltaFrozen(now, last) == 0

\* delta = now - last
Delta(now, last) == now - last

\* faulty variant: the refill is not capped at capacity
RefillUncapped(tokens, delta) == tokens + delta * refill_rate

\* min(self.capacity, tokens + delta * self.refill_rate)
Refill(tokens, delta) == Min(CapUnits, tokens + delta * refill_rate)

\* faulty variant: a request needs more than one token
BelowOneOrEqual(tokens) == tokens <= TokUnit

\* if tokens < 1
BelowOne(tokens) == tokens < TokUnit

\* int(x) for a quotient n / d with d > 0: truncation towards zero
IntTrunc(n, d) == IF n >= 0 THEN n \div d ELSE -((-n) \div d)

\* faulty variant: the quotient is truncated and not stepped up
RetryAfterTruncated(tokens) == IntTrunc(TokUnit - tokens, refill_rate)

\* retry_after = int((1 - tokens) / self.refill_rate) + 1
RetryAfter(tokens) == IntTrunc(TokUnit - tokens, refill_rate) + 1

\* faulty variant: the token is not taken
ConsumeNothing(tokens) == tokens

\* tokens -= 1
Consume(tokens) == tokens - TokUnit

\* round(n / d, 2) in hundredths, d > 0 (ties go to the even hundredth)
Round2(n, d) ==
    LET q == (n * 100) \div d
        r == (n * 100) % d
    IN  IF 2 * r < d THEN q
        ELSE IF 2 * r > d THEN q + 1
        ELSE IF q % 2 = 0 THEN q ELSE q + 1

\* RateLimitExceeded.__init__
RateLimitExceeded(retry_after) ==
    [kind |-> "RateLimitExceeded", status_code |-> 429,
     retry_after |-> retry_after,
     headers |-> IF retry_after # 0
                 THEN {<<"Retry-After", ToString(retry_after)>>} ELSE {}]

\* ------------------------------------------------ handlers as functions
\* an exception that reaches the caller
StoreError == [kind |-> "Error"]

\* get_stats once hmget has answered `data`
StatsResult(data, now) ==
    IF data[1] = None
    THEN [kind |-> "stats", status |-> "new",
          tokens_available |-> capacity * 100,
          capacity |-> capacity, refill_rate |-> refill_rate]
    ELSE IF ParseError(data) THEN StoreError
    ELSE LET tokens == Float(data[1])
             last == StoredLast(data, now)
             delta == Delta(now, last)
             current_tokens == Refill(tokens, delta)
         IN  [kind |-> "stats", status |-> "active",
              tokens_available |-> Round2(current_tokens, TokUnit),
              capacity |-> capacity, refill_rate |-> refill_rate,
              last_request |-> last,
              time_since_last |-> Round2(delta, 1)]

\* the refilled token count of allow_request once hmget has answered `data`
Refilled(data, now) ==
    Refill(StoredTokens(data), Delta(now, StoredLast(data, now)))

Allowed == [kind |-> "Allowed"]

\* faulty variant: the store error is passed on to the caller
FailClosed == StoreError

\* except Exception: log, then `return True`
FailOpen == Allowed

\* faulty variant: a denied call writes the refilled count and restarts the refill clock
DeniedStoreWritten(s, ip, tokens, now) == Expire(Hset(s, ip, tokens, now, now), ip, now)

\* the store a denied call leaves: RateLimitExceeded is raised before any write
DeniedStore(s, ip, tokens, now) == s

\* the /limited route: 200 when allow_request returns, the 429 re-raised
Limited(ret) ==
    IF ret.kind = "RateLimitExceeded"
    THEN [status_code |-> ret.status_code, headers |-> ret.headers]
    ELSE [status_code |-> 200, headers |-> {}]

\* The points of allow_request at which the store can fail.
FailPoints == {"none", "hmget", "hset", "expire"}

\* TokenBucket.allow_request(ip) at time `now`, the store failing at `fail`:
\* the result and the store it leaves.
AllowOutcome(s, ip, now, fail) ==
    IF fail = "hmget"
    THEN [ret |-> FailOpen, store |-> s, answered |-> FALSE, tokens |-> 0,
          failed |-> TRUE]
    ELSE IF ParseError(Hmget(s, ip, now))
    THEN [ret |-> FailOpen, store |-> s, answered |-> TRUE, tokens |-> 0,
          failed |-> TRUE]
    ELSE LET tokens == Refilled(Hmget(s, ip, now), now) IN
         IF BelowOne(tokens)
         THEN [ret |-> RateLimitExceeded(RetryAfter(tokens)),
               store |-> DeniedStore(s, ip, tokens, now),
               answered |-> TRUE, tokens |-> tokens, failed |-> FALSE]
         ELSE IF fail = "hset"
         THEN [ret |-> FailOpen, store |-> s, answered |-> TRUE,
               tokens |-> tokens, failed |-> TRUE]
         ELSE LET s1 == Hset(s, ip, Consume(tokens), now, now) IN
              IF fail = "expire"
              THEN [ret |-> FailOpen, store |-> s1, answered |-> TRUE,
                    tokens |-> tokens, failed |-> TRUE]
              ELSE [ret |-> Allowed, store |-> Expire(s1, ip, now),
                    answered |-> TRUE, tokens |-> tokens, failed |-> FALSE]

\* ------------------------------------------------------------------ Init
\* a caller outside any handler
NoLocals == [ip |-> "", now |-> 0, data |-> <<None, None>>, tokens |-> 0,
             failed |-> FALSE, ret |-> [kind |-> "none"]]

\* no denial is pending
NoDeadline == -1

\* calls: the allow_request calls made; first: the time of the first;
\* clean: the store answered throughout each; admitted: those that returned;
\* deadline: the time the last call was told to retry at, if it was denied
NoHist == [calls |-> 0, first |-> 0, clean |-> TRUE, admitted |-> 0,
           deadline |-> NoDeadline]

RECURSIVE SumCalls(_)
SumCalls(ips) ==
    IF ips = {} THEN 0
    ELSE LET ip == CHOOSE x \in ips : TRUE
         IN  hist[ip].calls + SumCalls(ips \ {ip})

\* the allow_request calls made so far, over all identities
TotalCalls == SumCalls(Identities)

Init ==
    /\ capacity \in Capacities
    /\ refill_rate \in RefillRates
    /\ clock = 0
    /\ store = [ip \in Identities |-> NoKey]
    /\ resp = [op |-> "init"]
    /\ hist = [ip \in Identities |-> NoHist]
    /\ pc = [p \in Procs |-> "idle"]
    /\ loc = [p \in Procs |-> NoLocals]
    /\ started = 0

\* ------------------------------------------- Spec: one call at a time
AllowRequest(ip, now, fail) ==
    /\ TotalCalls < MaxCalls
    /\ LET o == AllowOutcome(store, ip, now, fail) IN
        /\ store' = o.store
        /\ resp' = [op |-> "allow_request", ip |-> ip, now |-> now,
                    fail |-> fail, failed |-> o.failed,
                    answered |-> o.answered, tokens |-> o.tokens,
                    due |-> hist[ip].deadline,
                    ret |-> o.ret, http |-> Limited(o.ret)]
        /\ hist' = [hist EXCEPT ![ip] =
                      [calls |-> @.calls + 1,
                       first |-> IF @.calls = 0 THEN now ELSE @.first,
                       clean |-> @.clean /\ ~o.failed,
                       admitted |-> @.admitted + (IF o.ret = Allowed THEN 1 ELSE 0),
                       deadline |-> IF o.ret.kind = "RateLimitExceeded"
                                    THEN now + o.ret.retry_after
                                    ELSE NoDeadline]]
    /\ clock' = now
    /\ UNCHANGED <<capacity, refill_rate, pc, loc, started>>

\* faulty variant: get_stats creates the record of an identity it has not seen
GetStatsCreates(ip, now, fail) ==
    /\ resp' = [op |-> "get_stats", ip |-> ip, now |-> now, fail |-> fail,
                ret |-> IF fail THEN StoreError
                        ELSE StatsResult(Hmget(store, ip, now), now)]
    /\ store' = IF ~fail /\ Hmget(store, ip, now)[1] = None
                THEN Expire(Hset(store, ip, CapUnits, now, now), ip, now)
                ELSE store
    /\ clock' = now
    /\ UNCHANGED <<capacity, refill_rate, hist, pc, loc, started>>

GetStats(ip, now, fail) ==
    /\ resp' = [op |-> "get_stats", ip |-> ip, now |-> now, fail |-> fail,
                ret |-> IF fail THEN StoreError
                        ELSE StatsResult(Hmget(store, ip, now), now)]
    /\ clock' = now
    /\ UNCHANGED <<capacity, refill_rate, store, hist, pc, loc, started>>

CheckRedisConnection(now, fail) ==
    /\ resp' = [op |-> "check_redis_connection", now |-> now, fail |-> fail,
                ret |-> IF fail THEN StoreError ELSE [kind |-> "True"]]
    /\ clock' = now
    /\ UNCHANGED <<capacity, refill_rate, store, hist, pc, loc, started>>

\* time.time() never runs backwards
Later == {t \in Times : t >= clock}

Next ==
    \/ \E ip \in Identities, now \in Later, fail \in FailPoints :
            AllowRequest(ip, now, fail)
    \/ \E ip \in Identities, now \in Later, fail \in BOOLEAN :
            GetStats(ip, now, fail)
    \/ \E now \in Later, fail \in BOOLEAN : CheckRedisConnection(now, fail)

Spec == Init /\ [][Next]_vars

\* ------------------- SpecCorrupt: Spec with a store that can be corrupted
\* another client of the store overwrites a field of a record with text
\* that is no number
Corrupt(ip, field) ==
    /\ Live(store[ip], clock)
    /\ store[ip].garbled = "no"
    /\ store' = [store EXCEPT ![ip].garbled = field]
    /\ resp' = [op |-> "corrupt", ip |-> ip]
    /\ UNCHANGED <<capacity, refill_rate, clock, hist, pc, loc, started>>

NextCorrupt ==
    \/ Next
    \/ \E ip \in Identities, field \in {"tokens", "last"} : Corrupt(ip, field)

SpecCorrupt == Init /\ [][NextCorrupt]_vars

\* ------------------------------- SpecConc: callers interleave at the store
Pending == [kind |-> "pending"]

\* allow_request: now = time.time(); key = f"bucket:{ip}"
AllowBegin(p, ip) ==
    /\ pc[p] = "idle"
    /\ started < MaxStarted
    /\ started' = started + 1
    /\ loc' = [loc EXCEPT ![p] =
                 [ip |-> ip, now |-> clock, data |-> <<None, None>>,
                  tokens |-> 0, failed |-> FALSE, ret |-> Pending]]
    /\ pc' = [pc EXCEPT ![p] = "allow_hmget"]
    /\ UNCHANGED <<capacity, refill_rate, clock, store, resp, hist>>

\* allow_request: the read, the refill, and the denial or the token taken
AllowHmget(p, fail) ==
    /\ pc[p] = "allow_hmget"
    /\ IF fail
       THEN /\ loc' = [loc EXCEPT ![p].ret = FailOpen, ![p].failed = TRUE]
            /\ pc' = [pc EXCEPT ![p] = "idle"]
            /\ store' = store
       ELSE IF ParseError(Hmget(store, loc[p].ip, clock))
       THEN /\ loc' = [loc EXCEPT ![p].data = Hmget(store, loc[p].ip, clock),
                                  ![p].ret = FailOpen, ![p].failed = TRUE]
            /\ pc' = [pc EXCEPT ![p] = "idle"]
            /\ store' = store
       ELSE LET data == Hmget(store, loc[p].ip, clock)
                tokens == Refilled(data, loc[p].now) IN
            IF BelowOne(tokens)
            THEN /\ loc' = [loc EXCEPT ![p].data = data,
                                       ![p].tokens = tokens,
                                       ![p].ret = RateLimitExceeded(RetryAfter(tokens))]
                 /\ pc' = [pc EXCEPT ![p] = "idle"]
                 /\ store' = DeniedStore(store, loc[p].ip, tokens, loc[p].now)
            ELSE /\ loc' = [loc EXCEPT ![p].data = data,
                                       ![p].tokens = Consume(tokens)]
                 /\ pc' = [pc EXCEPT ![p] = "allow_hset"]
                 /\ store' = store
    /\ UNCHANGED <<capacity, refill_rate, clock, resp, hist, started>>

\* allow_request: r.hset(key, mapping={"tokens": tokens, "last": now})
AllowHset(p, fail) ==
    /\ pc[p] = "allow_hset"
    /\ IF fail
       THEN /\ loc' = [loc EXCEPT ![p].ret = FailOpen, ![p].failed = TRUE]
            /\ pc' = [pc EXCEPT ![p] = "idle"]
            /\ store' = store
       ELSE /\ store' = Hset(store, loc[p].ip, loc[p].tokens, loc[p].now, clock)
            /\ pc' = [pc EXCEPT ![p] = "allow_expire"]
            /\ loc' = loc
    /\ UNCHANGED <<capacity, refill_rate, clock, resp, hist, started>>

\* allow_request: r.expire(key, 60); return True
AllowExpire(p, fail) ==
    /\ pc[p] = "allow_expire"
    /\ IF fail
       THEN /\ loc' = [loc EXCEPT ![p].ret = FailOpen, ![p].failed = TRUE]
            /\ store' = store
       ELSE /\ loc' = [loc EXCEPT ![p].ret = Allowed]
            /\ store' = Expire(store, loc[p].ip, clock)
    /\ pc' = [pc EXCEPT ![p] = "idle"]
    /\ UNCHANGED <<capacity, refill_rate, clock, resp, hist, started>>

\* get_stats: now = time.time(); key = f"bucket:{ip}"
StatsBegin(p, ip) ==
    /\ pc[p] = "idle"
    /\ started < MaxStarted
    /\ started' = started + 1
    /\ loc' = [loc EXCEPT ![p] =
                 [ip |-> ip, now |-> clock, data |-> <<None, None>>,
                  tokens |-> 0, failed |-> FALSE, ret |-> Pending]]
    /\ pc' = [pc EXCEPT ![p] = "stats_hmget"]
    /\ UNCHANGED <<capacity, refill_rate, clock, store, resp, hist>>

\* get_stats: the read and the snapshot returned, or the store's error re-raised
StatsHmget(p, fail) ==
    /\ pc[p] = "stats_hmget"
    /\ loc' = [loc EXCEPT
                 ![p].data = IF fail THEN @ ELSE Hmget(store, loc[p].ip, clock),
                 ![p].failed = fail,
                 ![p].ret =
                    IF fail THEN StoreError
                    ELSE StatsResult(Hmget(store, loc[p].ip, clock), loc[p].now)]
    /\ pc' = [pc EXCEPT ![p] = "idle"]
    /\ UNCHANGED <<capacity, refill_rate, clock, store, resp, hist, started>>

\* the instants of SpecConc: the first seconds and the end of the expiry window
ConcTimes == {t \in Times : t <= MaxEarly \/ t = ExpirySeconds}

\* time passes between two steps of the callers
Tick(t) ==
    /\ t > clock
    /\ clock' = t
    /\ UNCHANGED <<capacity, refill_rate, store, resp, hist, pc, loc, started>>

NextConc ==
    \/ \E p \in Procs, ip \in Identities : AllowBegin(p, ip)
    \/ \E p \in Procs, fail \in BOOLEAN : AllowHmget(p, fail)
    \/ \E p \in Procs, fail \in BOOLEAN : AllowHset(p, fail)
    \/ \E p \in Procs, fail \in BOOLEAN : AllowExpire(p, fail)
    \/ \E p \in Procs, ip \in Identities : StatsBegin(p, ip)
    \/ \E p \in Procs, fail \in BOOLEAN : StatsHmget(p, fail)
    \/ \E t \in ConcTimes : Tick(t)

SpecConc == Init /\ [][NextConc]_vars

\* ======================================================== claims (Spec)
IsAllow(r) == r.op = "allow_request"
IsStats(r) == r.op = "get_stats"
IsDenied(r) == IsAllow(r) /\ r.ret.kind = "RateLimitExceeded"

\* the calls of resp.ip so far all came at one instant, the identity unseen
\* before them, and the store answered each of them
Burst == IsAllow(resp) /\ hist[resp.ip].first = resp.now /\ hist[resp.ip].clean

\* C1: of the immediate calls for an identity without a record, with the store
\* reachable, calls 1..capacity are Allowed and call capacity+1 is Denied.
C1_BurstAllowsCapacity ==
    Burst =>
        /\ hist[resp.ip].calls <= capacity => resp.ret = Allowed
        /\ hist[resp.ip].calls = capacity + 1 => resp.ret.kind = "RateLimitExceeded"

C1_Witness ==
    /\ Burst
    /\ capacity = 2
    /\ hist[resp.ip].calls = 3
    /\ resp.ret.kind = "RateLimitExceeded"

\* C2: with the store unreachable allow_request returns Allowed and raises
\* nothing, whatever the record held; get_stats and check_redis_connection
\* raise.
C2_FailOpen ==
    /\ (IsAllow(resp) /\ resp.fail = "hmget") => resp.ret = Allowed
    /\ (IsStats(resp) /\ resp.fail) => resp.ret.kind = "Error"
    /\ (resp.op = "check_redis_connection" /\ resp.fail) => resp.ret.kind = "Error"

\* the store was unreachable for a call that would have been denied
C2_Witness ==
    /\ IsAllow(resp) /\ resp.fail = "hmget" /\ resp.ret = Allowed
    /\ Live(store[resp.ip], clock)
    /\ store[resp.ip].tokens + (clock - store[resp.ip].last) * refill_rate < TokUnit

\* ceil(n / d) for d > 0
Ceil(n, d) == -((-n) \div d)

\* C3: a denial carries retry_after = ceil((1 - tokens') / refill_rate).
C3_RetryAfterIsCeil ==
    IsDenied(resp) =>
        resp.ret.retry_after = Ceil(TokUnit - resp.tokens, refill_rate)

\* C4: allow_request denies exactly when the store answered and the refilled
\* count is below one token; a denial is a 429 with an integer
\* retry_after >= 1 in its Retry-After header, and never comes of a store
\* failure.
C4_DeniedIffBelowOne ==
    IsAllow(resp) =>
        /\ resp.ret.kind = "RateLimitExceeded"
              <=> (resp.answered /\ resp.tokens < TokUnit)
        /\ resp.ret.kind = "RateLimitExceeded" =>
              /\ resp.ret.retry_after \in Nat \ {0}
              /\ ~resp.failed
              /\ resp.http.status_code = 429
              /\ resp.http.headers =
                    {<<"Retry-After", ToString(resp.ret.retry_after)>>}
        /\ resp.ret.kind # "RateLimitExceeded" =>
              resp.ret = Allowed /\ resp.http.status_code = 200

\* a denial of a fractional refilled count
C4_Witness ==
    /\ IsDenied(resp)
    /\ resp.tokens > 0
    /\ resp.now > hist[resp.ip].first

\* C5: a denied call leaves the record as it was: tokens, last and expiry.
C5_DeniedLeavesRecord ==
    [][IsDenied(resp') => store' = store]_vars

\* a denial of a call made later than the write it found
C5_Witness ==
    /\ IsDenied(resp)
    /\ Live(store[resp.ip], clock)
    /\ store[resp.ip].last < resp.now

\* C6: a call during which the store fails returns Allowed and leaves the
\* record as it was.
C6_StoreFailureLeavesRecord ==
    [][(IsAllow(resp') /\ resp'.failed) =>
            (resp'.ret = Allowed /\ store' = store)]_vars

\* C7: get_stats never changes the store; for an identity without a record it
\* reports status "new" with tokens_available = capacity, and a record exists
\* only after an Allowed allow_request.
C7_StatsReadOnly ==
    /\ [][IsStats(resp') => store' = store]_vars
    /\ [](\A ip \in Identities : store[ip].exists => hist[ip].calls > 0)
    /\ []((IsStats(resp) /\ ~resp.fail /\ ~Live(store[resp.ip], clock)) =>
            /\ resp.ret.status = "new"
            /\ resp.ret.tokens_available = capacity * 100)

\* get_stats answered "new" for an identity never seen by allow_request
C7_Witness ==
    /\ IsStats(resp) /\ ~resp.fail
    /\ resp.ret.status = "new"
    /\ hist[resp.ip].calls = 0
    /\ ~store[resp.ip].exists

\* one Allowed call at time 0 on a fresh identity, and no other allow call
OneAllowAtZero(h) == h.calls = 1 /\ h.first = 0 /\ h.clean

StatsAnswered(r) == IsStats(r) /\ r.ret.kind = "stats"

\* C9: after one Allowed call at time 0 and no other, tokens_available never
\* exceeds capacity, is capacity from time capacity / refill_rate on (also
\* once the record has expired), and never decreases from one query to the
\* next.
C9_RefillMonotonicCapped ==
    /\ []((StatsAnswered(resp) /\ OneAllowAtZero(hist[resp.ip])) =>
            /\ resp.ret.tokens_available <= capacity * 100
            /\ resp.now * refill_rate >= capacity * TokUnit =>
                  resp.ret.tokens_available = capacity * 100)
    /\ [][(/\ StatsAnswered(resp) /\ StatsAnswered(resp')
           /\ resp.ip = resp'.ip
           /\ OneAllowAtZero(hist[resp.ip])) =>
              resp'.ret.tokens_available >= resp.ret.tokens_available]_vars

\* the record, still there, is reported full at time capacity / refill_rate
C9_Witness ==
    /\ StatsAnswered(resp) /\ OneAllowAtZero(hist[resp.ip])
    /\ capacity = 2
    /\ resp.now * refill_rate = capacity * TokUnit
    /\ resp.ret.status = "active"
    /\ resp.ret.tokens_available = capacity * 100

\* C10: once a record's expiry time has passed, the next allow_request (the
\* store answering) is Allowed and writes tokens = capacity - 1 and
\* last = now, whatever the record held.
C10_ExpiredIsFresh ==
    [][(/\ IsAllow(resp') /\ resp'.fail = "none"
        /\ store[resp'.ip].exists
        /\ store[resp'.ip].ttl # NoTTL
        /\ resp'.now >= store[resp'.ip].ttl) =>
            /\ resp'.ret = Allowed
            /\ store'[resp'.ip] =
                 [exists |-> TRUE, tokens |-> (capacity - 1) * TokUnit,
                  last |-> resp'.now, ttl |-> resp'.now + ExpirySeconds,
                  garbled |-> "no"]]_vars

\* the second call of an identity comes when the record of the first has expired
C10_Witness ==
    /\ IsAllow(resp) /\ resp.fail = "none"
    /\ capacity = 1
    /\ hist[resp.ip].calls = 2 /\ hist[resp.ip].clean
    /\ resp.now >= hist[resp.ip].first + ExpirySeconds
    /\ resp.ret = Allowed

\* the record an Allowed call at time now must leave, by the record it found
RecordAfterAllowed(rec, now) ==
    LET tokens == IF Live(rec, now) THEN rec.tokens ELSE capacity * TokUnit
        elapsed == IF Live(rec, now) THEN now - rec.last ELSE 0
        sum == tokens + elapsed * refill_rate
        refilled == IF sum > capacity * TokUnit THEN capacity * TokUnit ELSE sum
    IN  [exists |-> TRUE, tokens |-> refilled - TokUnit, last |-> now,
         ttl |-> now + ExpirySeconds, garbled |-> "no"]

\* C14: an Allowed call, the store answering, leaves
\* {tokens: min(capacity, tokens + elapsed * refill_rate) - 1, last: now}
\* with an expiry of 60 seconds from now.
C14_AllowedWrite ==
    [][(IsAllow(resp') /\ resp'.fail = "none" /\ resp'.ret = Allowed) =>
          store'[resp'.ip] = RecordAfterAllowed(store[resp'.ip], resp'.now)]_vars

\* an Allowed call that refilled a record by a fraction of a token, short of
\* capacity
C14_Witness ==
    /\ IsAllow(resp) /\ resp.fail = "none" /\ resp.ret = Allowed
    /\ hist[resp.ip].calls >= 2
    /\ resp.tokens < capacity * TokUnit
    /\ resp.tokens % TokUnit # 0
    /\ store[resp.ip].tokens = resp.tokens - TokUnit
    /\ store[resp.ip].ttl = resp.now + ExpirySeconds


\* C15: every record in the store has an expiry at most 60 seconds away, also
\* after a call during which the store failed part-way.
C15_EveryRecordExpires ==
    \A ip \in Identities :
        Live(store[ip], clock) =>
            /\ store[ip].ttl # NoTTL
            /\ store[ip].ttl <= clock + ExpirySeconds

\* C16: with the store answering every call, the calls admitted since the first
\* call at t0 number at most capacity + refill_rate * (t - t0).
C16_AdmittedWithinRate ==
    \A ip \in Identities :
        (hist[ip].calls > 0 /\ hist[ip].clean) =>
            hist[ip].admitted * TokUnit
                <= capacity * TokUnit + refill_rate * (clock - hist[ip].first)

\* C17: after a denial at t with retry_after r, the next allow_request for the
\* identity, if it comes at t + r or later, is Allowed.
C17_AllowedAfterRetry ==
    [][(/\ IsAllow(resp')
        /\ resp'.due = hist[resp'.ip].deadline
        /\ resp'.due # NoDeadline
        /\ resp'.now >= resp'.due) =>
            resp'.ret = Allowed]_vars

\* the call after a denial came at the time the denial named, the record still
\* there, and was Allowed by the store's answer
C17_Witness ==
    /\ IsAllow(resp) /\ resp.fail = "none" /\ resp.ret = Allowed
    /\ resp.due # NoDeadline
    /\ resp.now = resp.due
    /\ hist[resp.ip].clean
    /\ resp.now < hist[resp.ip].first + ExpirySeconds


\* ================================================= claims (SpecCorrupt)
\* the record the call finds holds a field that is no number
FindsGarbled(r) ==
    /\ Live(store[r.ip], r.now)
    /\ store[r.ip].garbled # "no"

C8_TokensInRange ==
    /\ \A ip \in Identities :
          store[ip].exists =>
              (0 <= store[ip].tokens /\ store[ip].tokens <= CapUnits)
    /\ \A p \in Procs :
          loc[p].ret.kind = "stats" =>
              /\ 0 <= loc[p].ret.tokens_available
              /\ loc[p].ret.tokens_available <= capacity * 100

\* caller p has returned from an allow_request during which the store answered
AllowDone(p) ==
    /\ pc[p] = "idle"
    /\ loc[p].ret.kind \in {"Allowed", "RateLimitExceeded"}
    /\ ~loc[p].failed

\* the refilled count caller p computed
RefilledBy(p) ==
    IF loc[p].ret.kind = "RateLimitExceeded" THEN loc[p].tokens
    ELSE loc[p].tokens + TokUnit

\* callers p and q read the same fields for the same identity, and each
\* refilled them to exactly one token
ReadSameOneToken(p, q) ==
    /\ p # q
    /\ AllowDone(p) /\ AllowDone(q)
    /\ loc[p].ip = loc[q].ip
    /\ loc[p].data = loc[q].data
    /\ RefilledBy(p) = TokUnit /\ RefilledBy(q) = TokUnit

\* C12: two allow_request calls that read the same record with exactly one
\* token available are both Allowed, and the record keeps the last writer's
\* count: one token taken for two admissions.
C12_RaceAdmitsBoth ==
    \A p, q \in Procs :
        ReadSameOneToken(p, q) =>
            /\ loc[p].ret = Allowed /\ loc[q].ret = Allowed
            /\ store[loc[p].ip].exists
            /\ store[loc[p].ip].tokens = 0
            /\ store[loc[p].ip].last \in {loc[p].now, loc[q].now}

\* the interleaving: both callers read a stored record holding one token
C12_Witness ==
    \E p, q \in Procs :
        /\ ReadSameOneToken(p, q)
        /\ Truthy(loc[p].data[1])
        /\ Float(loc[p].data[1]) = TokUnit
        /\ loc[p].ret = Allowed /\ loc[q].ret = Allowed
        /\ store[loc[p].ip].tokens = 0

\* caller p, in allow_request, has refilled the fields of a record it read
HasRefilled(p) ==
    /\ Truthy(loc[p].data[1])
    /\ \/ pc[p] \in {"allow_hset", "allow_expire"}
       \/ pc[p] = "idle" /\ loc[p].ret.kind \in {"Allowed", "RateLimitExceeded"}

\* C13: in every interleaving the refilled count a call computes is at least
\* the stored count it read.
C13_RefillNeverReduces ==
    \A p \in Procs :
        HasRefilled(p) => RefilledBy(p) >= Float(loc[p].data[1])

\* C18: under any interleaving of concurrent allow_request calls that share
\* one monotonic clock, the last_refill_at stored for an identity never
\* decreases from one write to the next while the record exists.
C18_LastNeverDecreases ==
    [][\A ip \in Identities :
          (/\ Live(store[ip], clock)
           /\ store'[ip].exists
           /\ store'[ip].last # store[ip].last) =>
               store'[ip].last > store[ip].last]_vars

====
